---------------------------- MODULE Spec2Model ----------------------------
(***************************************************************************)
(* A model of the Portfolio Monitor: the news source adapter               *)
(* (src/src/news_fetcher.py), the funding lookup adapter                   *)
(* (src/src/funding_tracker.py), the summary generator                     *)
(* (src/src/ai_summarizer.py), the digest renderer                         *)
(* (src/src/digest_generator.py), the email sender                         *)
(* (src/src/email_sender.py) and the main script (src/main.py).            *)
(*                                                                         *)
(* Python values are modelled as follows.  A str is a TLA+ string; None is *)
(* the value PyNone; a list is a sequence; a dict with fixed keys is a     *)
(* record; an insertion-ordered dict keyed by company name is a sequence   *)
(* of [name, value] pairs with distinct names.  A call that can raise      *)
(* returns a record [exc, value]: exc = TRUE means the exception leaves    *)
(* the function, and a try/except is the operator that turns exc = TRUE    *)
(* into the handler's value.                                               *)
(*                                                                         *)
(* Each component has its own specification (SpecFetch, SpecBatch,         *)
(* SpecFunding, SpecSummary, SpecDigest); the variables of the other       *)
(* components stay at their idle values in it.  SpecMain is a run of       *)
(* main (src/main.py) with the email sender (src/src/email_sender.py): it  *)
(* drives the batch loops and the renderer of the other components.        *)
(***************************************************************************)
EXTENDS Integers, Sequences, FiniteSets, TLC

VARIABLES
    \* NewsFetcher.fetch_company_news, one call (SpecFetch)
    days_back,       \* self.days_back
    response,        \* what requests.get / ET.fromstring give for the call
    articles,        \* the returned list, once fetch_pc = "done"
    fetch_pc,        \* "idle" | "call" | "done" | "raised"
    \* NewsFetcher.fetch_all_companies_news (SpecBatch)
    companies,       \* the configured company list
    news_idx,        \* how many entries the for loop has consumed
    results,         \* the results dict
    news_requests,   \* the queries passed to fetch_company_news, in order
    batch_pc,        \* "idle" | "loop" | "returned" | "raised"
    \* FundingTracker.get_all_funding_info (SpecFunding)
    fund_idx,
    fund_results,
    fund_requests,
    fund_pc,
    \* AISummarizer.summarize_company_news, one call (SpecSummary)
    sum_company,
    sum_articles,
    api,             \* what client.messages.create does for the call
    summary,         \* the returned value
    api_calls,       \* number of calls of client.messages.create
    sum_pc,          \* "idle" | "call" | "done" | "raised"
    \* summarize_all_companies, generate_digest, generate_subject_line
    \* (SpecDigest)
    news_data,       \* dict: company name -> article list
    funding_data,    \* [given, map]: None, or dict: company name -> record
    ai_summaries,    \* [given, map]: None, or dict: company name -> summary
    summarize_calls, \* company names passed to summarize_company_news
    digest,          \* the lines of the text generate_digest returns
    subject,
    today,           \* datetime.now(), in the formats the renderer uses
    dg_pc,           \* "idle" | "summarize" | "render" | "subject" | "done"
                     \* | "raised"
    \* main (SpecMain)
    args,            \* the parsed command line: --test, --skip-funding
    config,          \* what is found at the --config path
    environ,         \* os.environ: SMTP_EMAIL, SMTP_PASSWORD, RECIPIENT_EMAIL
    recipient_email,
    output_file,     \* output/digest_<timestamp>.txt: [written, content]
    smtp_log,        \* the calls of EmailSender.send_digest, in order
    exit_status,     \* the process's exit status, -1 while it runs
    main_pc          \* "idle" | "load_config" | "check_companies"
                     \* | "environment" | "mode" | "news" | "funding"
                     \* | "generate" | "save" | "send" | "exited"

fetchVars   == <<days_back, response, articles, fetch_pc>>
batchVars   == <<companies, news_idx, results, news_requests, batch_pc>>
fundVars    == <<fund_idx, fund_results, fund_requests, fund_pc>>
summaryVars == <<sum_company, sum_articles, api, summary, api_calls, sum_pc>>
digestVars  == <<news_data, funding_data, ai_summaries,
                 summarize_calls, digest, subject, today, dg_pc>>
mainVars    == <<args, config, environ, recipient_email, output_file,
                 smtp_log, exit_status, main_pc>>
vars == <<fetchVars, batchVars, fundVars, summaryVars, digestVars, mainVars>>

---------------------------------------------------------------------------
(* Python values *)

\* Python's None
PyNone == "<None>"
\* Element.find() returning None: the child element is not there
Absent == "<absent>"

\* bool(x) of an Optional[str]
Truthy(x) == x # PyNone /\ x # ""

Min(a, b) == IF a <= b THEN a ELSE b

\* a try/except Exception around a body: the handler's value replaces the
\* exception
TryExcept(body, handler) ==
    IF body.exc THEN [exc |-> FALSE, value |-> handler] ELSE body

Return(v) == [exc |-> FALSE, value |-> v]

\* needle in text, for strings
Contains(text, needle) ==
    \E i \in 1..(Len(text) - Len(needle) + 1) :
        SubSeq(text, i, i + Len(needle) - 1) = needle

---------------------------------------------------------------------------
(* The idle values of each component's variables *)

FetchIdle ==
    /\ days_back = 0
    /\ response = [error |-> "none", items |-> <<>>]
    /\ articles = <<>>
    /\ fetch_pc = "idle"

BatchIdle ==
    /\ companies = <<>>
    /\ news_idx = 0
    /\ results = <<>>
    /\ news_requests = <<>>
    /\ batch_pc = "idle"

FundIdle ==
    /\ fund_idx = 0
    /\ fund_results = <<>>
    /\ fund_requests = <<>>
    /\ fund_pc = "idle"

SummaryIdle ==
    /\ sum_company = ""
    /\ sum_articles = <<>>
    /\ api = [kind |-> "raise", text |-> ""]
    /\ summary = PyNone
    /\ api_calls = 0
    /\ sum_pc = "idle"

DigestIdle ==
    /\ news_data = <<>>
    /\ funding_data = [given |-> FALSE, map |-> <<>>]
    /\ ai_summaries = [given |-> FALSE, map |-> <<>>]
    /\ summarize_calls = <<>>
    /\ digest = <<>>
    /\ subject = ""
    /\ today = [long |-> "", numeric |-> "", stamp |-> ""]
    /\ dg_pc = "idle"

MainIdle ==
    /\ args = [test |-> FALSE, skip_funding |-> FALSE]
    /\ config = [kind |-> "missing", companies |-> <<>>]
    /\ environ = [SMTP_EMAIL |-> PyNone, SMTP_PASSWORD |-> PyNone,
                  RECIPIENT_EMAIL |-> PyNone]
    /\ recipient_email = PyNone
    /\ output_file = [written |-> FALSE, content |-> <<>>]
    /\ smtp_log = <<>>
    /\ exit_status = -1
    /\ main_pc = "idle"

---------------------------------------------------------------------------
(* NewsFetcher.fetch_company_news *)

\* items[:10]
ItemCap == 10
\* days_back: int = 7
DefaultDaysBack == 7
\* datetime.now(), in days
Now == 20

\* Bounds of the model
MaxFeedLen == 11

Title(i) == "Headline " \o ToString(i)
Url(i) == "https://news.google.com/articles/" \o ToString(i)
DateText(d) == "Mon, " \o ToString(d) \o " Nov 2026 09:00:00 GMT"
Days == 0..(Now + 1)

\* dateutil.parser.parse: the date of a text it understands, an exception
\* (ParserError) for any other text
DateParse(text) ==
    IF \E d \in Days : DateText(d) = text
    THEN Return(CHOOSE d \in Days : DateText(d) = text)
    ELSE [exc |-> TRUE, value |-> 0]

\* pub_date.strftime('%Y-%m-%d %H:%M')
Strftime(d) == "2026-11-" \o ToString(d) \o " 09:00"

\* One pass of the body of the for loop over the items, without its
\* try/except: [exc, value] where value is the list of what the pass appends
\* to articles, <<>> after a `continue`.  The article's 'summary' key (the
\* description, cleaned by _clean_summary, which catches its own exceptions)
\* is left out: nothing in the model reads it.
ParseItemUnguarded(item, cutoff) ==
    IF item.title = Absent \/ item.link = Absent THEN Return(<<>>)
    ELSE IF item.pubDate # Absent /\ Truthy(item.pubDate)
    THEN LET parsed == DateParse(item.pubDate) IN
         IF parsed.exc THEN [exc |-> TRUE, value |-> <<>>]
         ELSE IF parsed.value < cutoff THEN Return(<<>>)
         ELSE Return(<<[title |-> item.title, link |-> item.link,
                        published |-> Strftime(parsed.value),
                        source |-> "Unknown"]>>)
    ELSE Return(<<[title |-> item.title, link |-> item.link,
                   published |-> "Unknown date", source |-> "Unknown"]>>)

\* the loop body with its try/except: the inner handler is `continue`
ParseItem(item, cutoff) ==
    TryExcept(ParseItemUnguarded(item, cutoff), <<>>).value

\* a variant without the cap
TopItemsUncapped(items) == items

\* items[:10]
TopItems(items) == SubSeq(items, 1, Min(Len(items), ItemCap))

\* articles.append(article), for the articles of one pass
AppendArticles(acc, new) == acc \o new

RECURSIVE CollectArticles(_, _, _)
CollectArticles(items, cutoff, acc) ==
    IF items = <<>> THEN acc
    ELSE CollectArticles(Tail(items), cutoff,
                         AppendArticles(acc, ParseItem(Head(items), cutoff)))

\* the body of the outer try, lines 40-112
FetchCompanyNewsBody(resp, db) ==
    IF resp.error # "none" THEN [exc |-> TRUE, value |-> <<>>]
    ELSE IF resp.items = <<>> THEN Return(<<>>)
    ELSE Return(CollectArticles(TopItems(resp.items), Now - db, <<>>))

\* fetch_company_news: the outer handler returns []
FetchCompanyNews(resp, db) == TryExcept(FetchCompanyNewsBody(resp, db), <<>>)

\* The feeds of the model.  An item is the text of its title, link and
\* pubDate children (Absent: no such child; PyNone: a child without text).
ItemKinds == {"recent", "boundary", "old", "nodate", "emptydate", "baddate",
              "notitle", "nolink", "emptytitle", "emptylink"}
BackgroundKinds == {"recent", "old"}
SecondKinds == {"recent", "old", "baddate"}

MkItem(kind, i, db) ==
    [title |-> IF kind = "notitle" THEN Absent
               ELSE IF kind = "emptytitle" THEN PyNone ELSE Title(i),
     link |-> IF kind = "nolink" THEN Absent
              ELSE IF kind = "emptylink" THEN PyNone ELSE Url(i),
     pubDate |-> CASE kind = "nodate" -> Absent
                   [] kind = "emptydate" -> PyNone
                   [] kind = "baddate" -> "not a date"
                   [] kind = "old" -> DateText(Now - db - 1)
                   [] kind = "boundary" -> DateText(Now - db)
                   [] OTHER -> DateText(Now)]

\* feeds of up to MaxFeedLen items: a background kind, and two items of
\* other kinds anywhere in it
Feeds(db) ==
    {<<>>} \cup
    { [i \in 1..L |-> MkItem(IF i = p THEN a ELSE IF i = q THEN b ELSE c,
                             i, db)] :
        <<L, p, q>> \in {t \in (1..MaxFeedLen) \X (1..MaxFeedLen)
                                \X (1..MaxFeedLen) :
                            t[2] <= t[1] /\ t[3] <= t[1]},
        a \in ItemKinds, b \in SecondKinds, c \in BackgroundKinds }

Responses(db) ==
    { [error |-> e, items |-> <<>>] : e \in {"timeout", "http_error", "bad_xml"} }
    \cup { [error |-> "none", items |-> f] : f \in Feeds(db) }

FetchInit ==
    /\ days_back \in {DefaultDaysBack, 1}
    /\ response \in Responses(days_back)
    /\ articles = <<>>
    /\ fetch_pc = "call"

\* one call of fetch_company_news
FetchCompanyNewsCall ==
    /\ fetch_pc = "call"
    /\ LET r == FetchCompanyNews(response, days_back) IN
       /\ fetch_pc' = IF r.exc THEN "raised" ELSE "done"
       /\ articles' = r.value
    /\ UNCHANGED <<days_back, response>>
    /\ UNCHANGED <<batchVars, fundVars, summaryVars, digestVars, mainVars>>

FetchNext == FetchCompanyNewsCall

InitFetch ==
    FetchInit /\ BatchIdle /\ FundIdle /\ SummaryIdle /\ DigestIdle
    /\ MainIdle

SpecFetch == InitFetch /\ [][FetchNext]_vars

\* the items the loop looks at
Considered == TopItems(response.items)

HasTitleAndLink(item) == item.title # Absent /\ item.link # Absent

\* the article list holds an article made from the item
Retained(item) ==
    \E k \in 1..Len(articles) :
        articles[k].title = item.title /\ articles[k].link = item.link

DateMissing(item) == item.pubDate = Absent \/ ~Truthy(item.pubDate)
DateUnparseable(item) == ~DateMissing(item) /\ DateParse(item.pubDate).exc
DateOld(item, db) ==
    /\ ~DateMissing(item)
    /\ ~DateParse(item.pubDate).exc
    /\ DateParse(item.pubDate).value < Now - db

\* C1: every considered item with a title and a link whose publish date is
\* missing or fails to parse is in the returned list, and a considered item
\* with a title and a link is left out only when its date parsed and is
\* older than the cutoff.
C1_UndatedItemsRetained ==
    (fetch_pc = "done" /\ response.error = "none") =>
        \A i \in 1..Len(Considered) :
            LET item == Considered[i] IN
            HasTitleAndLink(item) =>
                /\ (DateMissing(item) \/ DateUnparseable(item))
                       => Retained(item)
                /\ ~Retained(item) => DateOld(item, days_back)

RECURSIVE IsSubsequence(_, _)
IsSubsequence(arts, items) ==
    IF arts = <<>> THEN TRUE
    ELSE IF items = <<>> THEN FALSE
    ELSE IF Head(arts).title = Head(items).title
            /\ Head(arts).link = Head(items).link
    THEN IsSubsequence(Tail(arts), Tail(items))
    ELSE IsSubsequence(arts, Tail(items))

\* C2: the returned list has at most 10 entries, its entries are made from
\* items among the first 10 of the feed in the feed's order, and no entry is
\* made from an item at position 11 or later.
C2_FirstTenInFeedOrder ==
    fetch_pc = "done" =>
        /\ Len(articles) <= ItemCap
        /\ IsSubsequence(articles, SubSeq(response.items, 1,
                                          Min(Len(response.items), ItemCap)))
        /\ \A k \in 1..Len(articles) :
               \A i \in (ItemCap + 1)..Len(response.items) :
                   articles[k].link # response.items[i].link

\* a feed of more than 10 items whose 11th item qualifies, with fewer than
\* 10 and at least 2 of the first 10 retained
C2_Witness ==
    /\ fetch_pc = "done"
    /\ Len(response.items) > ItemCap
    /\ Len(articles) >= 2
    /\ Len(articles) < ItemCap
    /\ LET item == response.items[ItemCap + 1] IN
       HasTitleAndLink(item) /\ ~DateMissing(item)
       /\ ~DateUnparseable(item) /\ ~DateOld(item, days_back)

\* the item's title or link element is not there, or is there without text
\* (Element.text is None)
LacksTitleOrLink(item) ==
    \/ item.title = Absent \/ item.title = PyNone
    \/ item.link = Absent \/ item.link = PyNone

RECURSIVE WithoutLacking(_)
WithoutLacking(items) ==
    IF items = <<>> THEN <<>>
    ELSE IF LacksTitleOrLink(Head(items)) THEN WithoutLacking(Tail(items))
    ELSE <<Head(items)>> \o WithoutLacking(Tail(items))

\* C15: every returned article has a title and a link; a considered item
\* whose title or link element is missing or has no text is not in the
\* returned list, and the list is the one the same feed gives with those
\* items taken out.
C15_ArticlesHaveTitleAndLink ==
    fetch_pc = "done" =>
        /\ \A k \in 1..Len(articles) :
               articles[k].title # PyNone /\ articles[k].link # PyNone
        /\ \A i \in 1..Len(Considered) :
               LacksTitleOrLink(Considered[i]) => ~Retained(Considered[i])
        /\ response.error = "none" =>
               articles = CollectArticles(WithoutLacking(Considered),
                                          Now - days_back, <<>>)

---------------------------------------------------------------------------
(* Insertion-ordered dicts keyed by company name *)

Keys(d) == { d[i].name : i \in 1..Len(d) }

HasKey(d, k) == k \in Keys(d)

\* d[k], for a key of d
Get(d, k) == d[CHOOSE i \in 1..Len(d) : d[i].name = k].value

\* d[k] = v: a new key goes last, an old key keeps its place
DictSet(d, k, v) ==
    IF HasKey(d, k)
    THEN [i \in 1..Len(d) |->
             IF d[i].name = k THEN [name |-> k, value |-> v] ELSE d[i]]
    ELSE Append(d, [name |-> k, value |-> v])

---------------------------------------------------------------------------
(* NewsFetcher.fetch_all_companies_news *)

MaxCompanies == 3

\* an entry of the company list: a bare name, or a dict with optional
\* 'name' and 'search' keys (Absent: the key is not there)
Bare(n) == [is_dict |-> FALSE, bare |-> n, name |-> Absent, search |-> Absent]
Dict(n, q) == [is_dict |-> TRUE, bare |-> Absent, name |-> n, search |-> q]

CompanyEntries ==
    { Bare("Acme"), Bare("bolt"), Bare(""),
      Dict("Zeta", "Zeta Labs"), Dict(Absent, "orphan query") }

CompanyLists ==
    UNION { [1..n -> CompanyEntries] : n \in 0..MaxCompanies }

\* company.get('name', '') / company
DisplayName(company) ==
    IF company.is_dict
    THEN (IF company.name = Absent THEN "" ELSE company.name)
    ELSE company.bare

\* company.get('search', display_name) / company
SearchQuery(company) ==
    IF company.is_dict
    THEN (IF company.search = Absent THEN DisplayName(company)
          ELSE company.search)
    ELSE company.bare

\* what the feed request of one company can meet
BatchResponses ==
    { [error |-> "timeout", items |-> <<>>],
      [error |-> "bad_xml", items |-> <<>>],
      [error |-> "none", items |-> <<>>],
      [error |-> "none",
       items |-> <<MkItem("recent", 1, DefaultDaysBack),
                   MkItem("old", 2, DefaultDaysBack),
                   MkItem("nodate", 3, DefaultDaysBack)>>] }

BatchInit ==
    /\ companies \in CompanyLists
    /\ news_idx = 0
    /\ results = <<>>
    /\ news_requests = <<>>
    /\ batch_pc = "loop"

\* a variant that gives up on the whole batch at the first failure
FetchForBatchAborting(resp, db) == FetchCompanyNewsBody(resp, db)

\* self.fetch_company_news(search_query), as the loop calls it
FetchForBatch(resp, db) == FetchCompanyNews(resp, db)

\* a variant that asks again for an entry whose request failed
FetchNextCompanyRetryingFrom(responses) ==
    /\ batch_pc = "loop"
    /\ news_idx < Len(companies)
    /\ LET company == companies[news_idx + 1] IN
       /\ Truthy(DisplayName(company))
       /\ \E resp \in responses :
            /\ news_requests' =
                   Append(news_requests,
                          [query |-> SearchQuery(company),
                           display |-> DisplayName(company),
                           response |-> resp])
            /\ IF resp.error # "none"
               THEN UNCHANGED <<results, news_idx>>
               ELSE /\ results' =
                           DictSet(results, DisplayName(company),
                                   FetchForBatch(resp, DefaultDaysBack).value)
                    /\ news_idx' = news_idx + 1
    /\ UNCHANGED <<companies, batch_pc>>
    /\ UNCHANGED <<fetchVars, fundVars, summaryVars, digestVars, mainVars>>

\* one pass of the for loop for an entry with a display name: lines 132-144;
\* the feed request meets one of `responses`
FetchNextCompanyFrom(responses) ==
    /\ batch_pc = "loop"
    /\ news_idx < Len(companies)
    /\ LET company == companies[news_idx + 1] IN
       /\ Truthy(DisplayName(company))
       /\ \E resp \in responses :
            LET r == FetchForBatch(resp, DefaultDaysBack) IN
            /\ news_requests' =
                   Append(news_requests,
                          [query |-> SearchQuery(company),
                           display |-> DisplayName(company),
                           response |-> resp])
            /\ IF r.exc
               THEN batch_pc' = "raised" /\ UNCHANGED results
               ELSE /\ results' = DictSet(results, DisplayName(company),
                                          r.value)
                    /\ UNCHANGED batch_pc
    /\ news_idx' = news_idx + 1
    /\ UNCHANGED companies
    /\ UNCHANGED <<fetchVars, fundVars, summaryVars, digestVars, mainVars>>

FetchNextCompany == FetchNextCompanyFrom(BatchResponses)

\* one pass of the for loop for an entry without a display name: `continue`
SkipUnnamedCompany ==
    /\ batch_pc = "loop"
    /\ news_idx < Len(companies)
    /\ ~Truthy(DisplayName(companies[news_idx + 1]))
    /\ news_idx' = news_idx + 1
    /\ UNCHANGED <<companies, results, news_requests, batch_pc>>
    /\ UNCHANGED <<fetchVars, fundVars, summaryVars, digestVars, mainVars>>

\* return results
ReturnResults ==
    /\ batch_pc = "loop"
    /\ news_idx = Len(companies)
    /\ batch_pc' = "returned"
    /\ UNCHANGED <<companies, news_idx, results, news_requests>>
    /\ UNCHANGED <<fetchVars, fundVars, summaryVars, digestVars, mainVars>>

BatchNext == FetchNextCompany \/ SkipUnnamedCompany \/ ReturnResults

InitBatch ==
    FetchIdle /\ BatchInit /\ FundIdle /\ SummaryIdle /\ DigestIdle
    /\ MainIdle

SpecBatch == InitBatch /\ [][BatchNext]_vars

\* the named entries among the first n of the list, in order
RECURSIVE NamedEntries(_, _)
NamedEntries(list, n) ==
    IF n = 0 THEN <<>>
    ELSE IF Truthy(DisplayName(list[n]))
    THEN Append(NamedEntries(list, n - 1), list[n])
    ELSE NamedEntries(list, n - 1)

\* request j is the last one made for its display name
LastRequestFor(j) ==
    \A k \in (j + 1)..Len(news_requests) :
        news_requests[k].display # news_requests[j].display

FailedRequest(j) == news_requests[j].response.error # "none"

\* C6: no failure leaves fetch_all_companies_news as an exception; every
\* entry with a display name is fetched, whatever failed before it; a
\* company whose (last) fetch failed has the empty list and every other
\* company has the articles of its own feed; the returned mapping has a key
\* for every non-empty display name.
C6_FailuresIsolatedPerCompany ==
    /\ batch_pc # "raised"
    /\ LET named == NamedEntries(companies, news_idx) IN
       /\ Len(news_requests) = Len(named)
       /\ \A j \in 1..Len(named) :
              /\ news_requests[j].query = SearchQuery(named[j])
              /\ news_requests[j].display = DisplayName(named[j])
              /\ HasKey(results, DisplayName(named[j]))
    /\ \A j \in 1..Len(news_requests) :
           LastRequestFor(j) =>
               Get(results, news_requests[j].display) =
                   IF FailedRequest(j) THEN <<>>
                   ELSE CollectArticles(
                            TopItems(news_requests[j].response.items),
                            Now - DefaultDaysBack, <<>>)
    /\ batch_pc = "returned" =>
           Keys(results) =
               { DisplayName(companies[i]) : i \in 1..Len(companies) }
                   \ {"", PyNone}

\* the batch returned after a failure for one company was followed by a
\* fetch that found articles for another
C6_Witness ==
    /\ batch_pc = "returned"
    /\ \E j, k \in 1..Len(news_requests) :
           /\ j < k
           /\ FailedRequest(j)
           /\ news_requests[j].display # news_requests[k].display
           /\ Get(results, news_requests[j].display) = <<>>
           /\ Get(results, news_requests[k].display) # <<>>

---------------------------------------------------------------------------
(* FundingTracker *)

StatusNoData == "No public funding data available"
StatusMaybe == "Some funding information may be available in search results"

\* funding_keywords
FundingKeywords ==
    {"raised", "funding", "valuation", "Series", "million", "billion"}

\* any(keyword in text for keyword in funding_keywords)
HasFundingKeyword(text) == \E kw \in FundingKeywords : Contains(text, kw)

\* the funding_info dict as first built: lines 36-43
DefaultFundingInfo(company_name) ==
    [company |-> company_name, status |-> StatusNoData,
     last_funding_round |-> PyNone, total_raised |-> PyNone,
     valuation |-> PyNone, source |-> PyNone]

\* the body of the try, lines 48-65: [exc, value], value being funding_info
\* as the body leaves it (the request or the parse of its content fails
\* before funding_info is touched; time.sleep is not modelled)
GetFundingInfoBody(company_name, resp) ==
    LET funding_info == DefaultFundingInfo(company_name) IN
    IF resp.error # "none" THEN [exc |-> TRUE, value |-> funding_info]
    ELSE IF resp.status_code = 200 /\ HasFundingKeyword(resp.text)
    THEN Return([funding_info EXCEPT !.status = StatusMaybe])
    ELSE Return(funding_info)

\* a variant without the try/except
GetFundingInfoNoHandler(company_name, resp) ==
    GetFundingInfoBody(company_name, resp)

\* get_funding_info: the handler only logs, and funding_info is returned
\* on every path
GetFundingInfo(company_name, resp) ==
    Return(GetFundingInfoBody(company_name, resp).value)

\* what the search request of one company can meet
FundingResponses ==
    { [error |-> "timeout", status_code |-> 0, text |-> ""],
      [error |-> "none", status_code |-> 200,
       text |-> "Acme raised $12 million in Series B"],
      [error |-> "none", status_code |-> 200,
       text |-> "acme series b fundraise, no results"],
      [error |-> "none", status_code |-> 429,
       text |-> "Too many requests about funding"] }

FundInit ==
    /\ companies \in CompanyLists
    /\ news_idx = 0
    /\ results = <<>>
    /\ news_requests = <<>>
    /\ batch_pc = "idle"
    /\ fund_idx = 0
    /\ fund_results = <<>>
    /\ fund_requests = <<>>
    /\ fund_pc = "loop"

\* a variant that searches with the 'search' override, as the news loop does
FundingSearchQueryOverride(company) == SearchQuery(company)

\* search_query of get_all_funding_info, lines 86-91: the display name,
\* for a dict entry ("Use display name for funding search") and for a bare
\* name
FundingSearchQuery(company) == DisplayName(company)

\* one pass of the for loop of get_all_funding_info for an entry with a
\* display name: lines 86-99; the search request meets one of `responses`
GetNextFundingInfoFrom(responses) ==
    /\ fund_pc = "loop"
    /\ fund_idx < Len(companies)
    /\ LET company == companies[fund_idx + 1]
           search_query == FundingSearchQuery(company)
       IN
       /\ Truthy(DisplayName(company))
       /\ \E resp \in responses :
            LET r == GetFundingInfo(search_query, resp) IN
            /\ fund_requests' =
                   Append(fund_requests,
                          [query |-> search_query,
                           display |-> DisplayName(company),
                           response |-> resp])
            /\ IF r.exc
               THEN fund_pc' = "raised" /\ UNCHANGED fund_results
               ELSE /\ fund_results' =
                           DictSet(fund_results, DisplayName(company),
                                   r.value)
                    /\ UNCHANGED fund_pc
    /\ fund_idx' = fund_idx + 1
    /\ UNCHANGED <<fetchVars, batchVars, summaryVars, digestVars, mainVars>>

GetNextFundingInfo == GetNextFundingInfoFrom(FundingResponses)

\* one pass for an entry without a display name: `continue`
SkipUnnamedFunding ==
    /\ fund_pc = "loop"
    /\ fund_idx < Len(companies)
    /\ ~Truthy(DisplayName(companies[fund_idx + 1]))
    /\ fund_idx' = fund_idx + 1
    /\ UNCHANGED <<fund_results, fund_requests, fund_pc>>
    /\ UNCHANGED <<fetchVars, batchVars, summaryVars, digestVars, mainVars>>

\* return results
ReturnFunding ==
    /\ fund_pc = "loop"
    /\ fund_idx = Len(companies)
    /\ fund_pc' = "returned"
    /\ UNCHANGED <<fund_idx, fund_results, fund_requests>>
    /\ UNCHANGED <<fetchVars, batchVars, summaryVars, digestVars, mainVars>>

FundNext == GetNextFundingInfo \/ SkipUnnamedFunding \/ ReturnFunding

InitFunding ==
    FetchIdle /\ FundInit /\ SummaryIdle /\ DigestIdle
    /\ MainIdle

SpecFunding == InitFunding /\ [][FundNext]_vars

LastFundingRequestFor(j) ==
    \A k \in (j + 1)..Len(fund_requests) :
        fund_requests[k].display # fund_requests[j].display

\* C7: get_funding_info never raises; after a request failure the record is
\* the default record; on every path the four structured fields are unset
\* and the status is the default, or the "may be available" marker exactly
\* when the response is OK and holds a funding keyword.
C7_FundingNeverRaisesFieldsUnset ==
    /\ fund_pc # "raised"
    /\ \A j \in 1..Len(fund_requests) :
           LastFundingRequestFor(j) =>
               LET resp == fund_requests[j].response
                   info == Get(fund_results, fund_requests[j].display)
               IN
               /\ info.company = fund_requests[j].query
               /\ resp.error # "none" =>
                      info = DefaultFundingInfo(fund_requests[j].query)
               /\ info.last_funding_round = PyNone
               /\ info.total_raised = PyNone
               /\ info.valuation = PyNone
               /\ info.source = PyNone
               /\ info.status \in {StatusNoData, StatusMaybe}
               /\ info.status = StatusMaybe <=>
                      (resp.error = "none" /\ resp.status_code = 200
                       /\ \E kw \in FundingKeywords : Contains(resp.text, kw))

\* the lookups returned after one request failed, one found a keyword in an
\* OK response, and one met a keyword in a response that was not OK
C7_Witness ==
    /\ fund_pc = "returned"
    /\ \E j \in 1..Len(fund_requests) :
           /\ fund_requests[j].response.error # "none"
           /\ LastFundingRequestFor(j)
           /\ Get(fund_results, fund_requests[j].display).status
                  = StatusNoData
    /\ \E j \in 1..Len(fund_requests) :
           /\ LastFundingRequestFor(j)
           /\ Get(fund_results, fund_requests[j].display).status
                  = StatusMaybe
    /\ \E j \in 1..Len(fund_requests) :
           /\ fund_requests[j].response.error = "none"
           /\ fund_requests[j].response.status_code # 200
           /\ HasFundingKeyword(fund_requests[j].response.text)

---------------------------------------------------------------------------
(* AISummarizer.summarize_company_news and _fallback_summary *)

MaxArticles == 4

\* str(x) inside an f-string
Str(x) == IF x = PyNone THEN "None" ELSE x

Whitespace == {" ", "\t", "\n"}

\* str.strip()
RECURSIVE Strip(_)
Strip(text) ==
    IF text = "" THEN ""
    ELSE IF SubSeq(text, 1, 1) \in Whitespace
    THEN Strip(SubSeq(text, 2, Len(text)))
    ELSE IF SubSeq(text, Len(text), Len(text)) \in Whitespace
    THEN Strip(SubSeq(text, 1, Len(text) - 1))
    ELSE text

\* sep.join(parts): a TypeError when a part is None
RECURSIVE Join(_, _)
Join(sep, parts) ==
    IF parts = <<>> THEN Return("")
    ELSE IF Head(parts) = PyNone THEN [exc |-> TRUE, value |-> ""]
    ELSE IF Len(parts) = 1 THEN Return(Head(parts))
    ELSE LET rest == Join(sep, Tail(parts)) IN
         [exc |-> rest.exc, value |-> Head(parts) \o sep \o rest.value]

\* [article['title'] for article in articles[:3]]
Headlines(arts) == [i \in 1..Min(Len(arts), 3) |-> arts[i].title]

\* a variant that always announces the rest
FallbackSummaryAlwaysMore(company_name, arts) ==
    LET headlines == Headlines(arts)
        n == Len(arts)
        joined == Join(", ", headlines)
    IN
    [exc |-> joined.exc,
     value |-> company_name \o " had " \o ToString(n)
               \o " news items this week, including: " \o joined.value
               \o ", and " \o ToString(n - Len(headlines)) \o " more."]

\* _fallback_summary: lines 99-113
FallbackSummary(company_name, arts) ==
    LET headlines == Headlines(arts)
        n == Len(arts)
    IN
    IF arts = <<>> THEN Return(company_name \o " had no news this week.")
    ELSE IF n = 1
    THEN Return(company_name \o " made headlines with: " \o Str(headlines[1]))
    ELSE IF n = 2
    THEN Return(company_name \o " had " \o ToString(n) \o " news items: "
                \o Str(headlines[1]) \o " and " \o Str(headlines[2]))
    ELSE LET joined == Join(", ", SubSeq(headlines, 1, 3))
             summary0 == company_name \o " had " \o ToString(n)
                         \o " news items this week, including: "
                         \o joined.value
         IN
         [exc |-> joined.exc,
          value |-> IF n > 3
                    THEN summary0 \o ", and " \o ToString(n - 3) \o " more."
                    ELSE summary0]

\* the body of the try, lines 44-81: [exc, value, calls], calls being the
\* number of calls of client.messages.create
SummarizeBody(company_name, arts, outcome) ==
    IF outcome.kind = "raise"
    THEN [exc |-> TRUE, value |-> "", calls |-> 1]
    ELSE IF outcome.kind = "empty_content"
    THEN [exc |-> TRUE, value |-> "", calls |-> 1]
    ELSE [exc |-> FALSE, value |-> Strip(outcome.text), calls |-> 1]

\* a variant whose handler gives up instead of falling back
SummarizeCompanyNewsNoFallback(company_name, arts, outcome) ==
    IF arts = <<>> THEN [exc |-> FALSE, value |-> PyNone, calls |-> 0]
    ELSE LET body == SummarizeBody(company_name, arts, outcome) IN
         IF body.exc THEN [exc |-> FALSE, value |-> PyNone, calls |-> 1]
         ELSE body

\* summarize_company_news: lines 40-86; the handler returns the fallback,
\* and what the fallback raises leaves the function
SummarizeCompanyNews(company_name, arts, outcome) ==
    IF arts = <<>> THEN [exc |-> FALSE, value |-> PyNone, calls |-> 0]
    ELSE LET body == SummarizeBody(company_name, arts, outcome) IN
         IF body.exc
         THEN LET fb == FallbackSummary(company_name, arts) IN
              [exc |-> fb.exc, value |-> fb.value, calls |-> body.calls]
         ELSE body

\* what client.messages.create can do
ApiOutcomes ==
    { [kind |-> "ok", text |-> "  Acme closed a Series B round.\n"],
      [kind |-> "ok", text |-> "Acme is growing."],
      [kind |-> "raise", text |-> ""],
      [kind |-> "empty_content", text |-> ""] }

SummaryTitles ==
    {"Acme raises Series B", "Acme launches product", "Acme hires CFO",
     PyNone}

MkArticle(t) ==
    [title |-> t, link |-> "https://news.google.com/articles/1",
     published |-> "Unknown date", source |-> "Unknown"]

ArticleLists(titles, maxLen) ==
    UNION { { [i \in 1..n |-> MkArticle(ts[i])] : ts \in [1..n -> titles] } :
            n \in 0..maxLen }

SummaryInit ==
    /\ sum_company \in {"Acme", "bolt"}
    /\ sum_articles \in ArticleLists(SummaryTitles, MaxArticles)
    /\ api \in ApiOutcomes
    /\ summary = PyNone
    /\ api_calls = 0
    /\ sum_pc = "call"

\* one call of summarize_company_news
SummarizeCompanyNewsCall ==
    /\ sum_pc = "call"
    /\ LET r == SummarizeCompanyNews(sum_company, sum_articles, api) IN
       /\ sum_pc' = IF r.exc THEN "raised" ELSE "done"
       /\ summary' = r.value
       /\ api_calls' = api_calls + r.calls
    /\ UNCHANGED <<sum_company, sum_articles, api>>
    /\ UNCHANGED <<fetchVars, batchVars, fundVars, digestVars, mainVars>>

SummaryNext == SummarizeCompanyNewsCall

InitSummary ==
    FetchIdle /\ BatchIdle /\ FundIdle /\ SummaryInit /\ DigestIdle
    /\ MainIdle

SpecSummary == InitSummary /\ [][SummaryNext]_vars

\* every article has a title that is a string
WellFormed(arts) == \A i \in 1..Len(arts) : arts[i].title # PyNone

ApiFails == api.kind # "ok"

\* the fallback string as the templates give it, for titles t
FallbackText(company_name, t) ==
    LET n == Len(t) IN
    CASE n = 1 -> company_name \o " made headlines with: " \o t[1]
      [] n = 2 -> company_name \o " had 2 news items: " \o t[1]
                  \o " and " \o t[2]
      [] n = 3 -> company_name \o " had 3 news items this week, including: "
                  \o t[1] \o ", " \o t[2] \o ", " \o t[3]
      [] n > 3 -> company_name \o " had " \o ToString(n)
                  \o " news items this week, including: "
                  \o t[1] \o ", " \o t[2] \o ", " \o t[3]
                  \o ", and " \o ToString(n - 3) \o " more."

TitlesOf(arts) == [i \in 1..Len(arts) |-> arts[i].title]

\* C8: summarize_company_news returns None for an empty list without calling
\* the service; for a non-empty list of well-formed articles it never raises
\* and returns a string: the service's text (stripped) when the call
\* succeeds, the fallback string when it fails.
C8_SummaryOrFallbackNeverRaises ==
    /\ (sum_pc \in {"done", "raised"} /\ sum_articles = <<>>) =>
           sum_pc = "done" /\ summary = PyNone /\ api_calls = 0
    /\ (sum_pc \in {"done", "raised"} /\ sum_articles # <<>>
        /\ WellFormed(sum_articles)) =>
           /\ sum_pc = "done"
           /\ summary # PyNone
           /\ api_calls = 1
           /\ ~ApiFails => summary = Strip(api.text)
           /\ ApiFails =>
                  summary = FallbackText(sum_company, TitlesOf(sum_articles))

\* the service failed for a non-empty list and the caller got the fallback
C8_Witness ==
    /\ sum_pc = "done"
    /\ ApiFails
    /\ Len(sum_articles) >= 3
    /\ summary = FallbackSummary(sum_company, sum_articles).value
    /\ api_calls = 1

\* C9: the fallback summary is the template of the article count n filled
\* with the company name and the first titles: n = 1, n = 2, n >= 3 with the
\* first three titles joined by ", ", and ", and (n-3) more." appended
\* exactly when n > 3.
C9_FallbackTemplates ==
    (sum_pc = "done" /\ ApiFails /\ sum_articles # <<>>
     /\ WellFormed(sum_articles)) =>
        /\ summary = FallbackText(sum_company, TitlesOf(sum_articles))
        /\ (sum_company = "Acme"
            /\ TitlesOf(sum_articles)
                   = <<"Acme raises Series B", "Acme launches product">>) =>
               summary = "Acme had 2 news items: Acme raises Series B and Acme launches product"
        /\ Contains(summary, " more.") <=> Len(sum_articles) > 3

\* the fallback was used for more than three articles
C9_Witness ==
    /\ sum_pc = "done"
    /\ ApiFails
    /\ Len(sum_articles) > 3
    /\ WellFormed(sum_articles)
    /\ Contains(summary, ", and 1 more.")

---------------------------------------------------------------------------
(* Python's order on str, and str.upper() *)

\* the characters of the model's names, in code point order
Ascii == " 0123456789ABCDEFGHIJKLMNOPQRSTUVWXYZabcdefghijklmnopqrstuvwxyz"

\* ord(c), up to an order-preserving renumbering
Ord(c) == CHOOSE i \in 1..Len(Ascii) : SubSeq(Ascii, i, i) = c

\* a < b for two str: lexicographic by code point
RECURSIVE StrLess(_, _)
StrLess(a, b) ==
    IF b = "" THEN FALSE
    ELSE IF a = "" THEN TRUE
    ELSE IF SubSeq(a, 1, 1) # SubSeq(b, 1, 1)
    THEN Ord(SubSeq(a, 1, 1)) < Ord(SubSeq(b, 1, 1))
    ELSE StrLess(SubSeq(a, 2, Len(a)), SubSeq(b, 2, Len(b)))

\* the lower-case letters are the last 26 characters of Ascii, the
\* upper-case letters the 26 before them
UpperChar(c) ==
    LET i == Ord(c) IN
    IF i > Len(Ascii) - 26 THEN SubSeq(Ascii, i - 26, i - 26) ELSE c

\* str.upper()
RECURSIVE Upper(_)
Upper(text) ==
    IF text = "" THEN ""
    ELSE UpperChar(SubSeq(text, 1, 1)) \o Upper(SubSeq(text, 2, Len(text)))

---------------------------------------------------------------------------
(* FundingTracker.format_funding_summary *)

NoRecentData == "No recent public funding data available"

RECURSIVE JoinStr(_, _)
JoinStr(sep, parts) ==
    IF parts = <<>> THEN ""
    ELSE IF Len(parts) = 1 THEN Head(parts)
    ELSE Head(parts) \o sep \o JoinStr(sep, Tail(parts))

\* format_funding_summary: lines 114-131
FormatFundingSummary(funding_info) ==
    IF funding_info.status = StatusNoData THEN NoRecentData
    ELSE LET parts ==
                 (IF Truthy(funding_info.last_funding_round)
                  THEN <<"Last Round: " \o funding_info.last_funding_round>>
                  ELSE <<>>)
                 \o (IF Truthy(funding_info.total_raised)
                     THEN <<"Total Raised: " \o funding_info.total_raised>>
                     ELSE <<>>)
                 \o (IF Truthy(funding_info.valuation)
                     THEN <<"Valuation: " \o funding_info.valuation>>
                     ELSE <<>>)
         IN
         IF parts # <<>> THEN JoinStr(" | ", parts)
         ELSE funding_info.status

---------------------------------------------------------------------------
(* AISummarizer.summarize_all_companies *)

\* what client.messages.create can do for one company of the batch
DigestApiOutcomes ==
    { [kind |-> "ok", text |-> "Shipping and hiring."],
      [kind |-> "raise", text |-> ""] }

\* a variant that asks for a summary of every company
RECURSIVE SummarizeAllCompaniesEager(_, _)
SummarizeAllCompaniesEager(nd, outs) ==
    IF nd = <<>> THEN [exc |-> FALSE, map |-> <<>>, calls |-> <<>>]
    ELSE LET rest == SummarizeAllCompaniesEager(SubSeq(nd, 1, Len(nd) - 1),
                                                outs)
             last == nd[Len(nd)]
             r == SummarizeCompanyNews(last.name, last.value, outs[last.name])
         IN
         [exc |-> rest.exc \/ r.exc,
          map |-> DictSet(rest.map, last.name, r.value),
          calls |-> Append(rest.calls, last.name)]

\* summarize_all_companies: lines 128-138; [exc, map, calls], calls being
\* the company names passed to summarize_company_news, in order
RECURSIVE SummarizeAllCompanies(_, _)
SummarizeAllCompanies(nd, outs) ==
    IF nd = <<>> THEN [exc |-> FALSE, map |-> <<>>, calls |-> <<>>]
    ELSE LET rest == SummarizeAllCompanies(SubSeq(nd, 1, Len(nd) - 1), outs)
             last == nd[Len(nd)]
         IN
         IF rest.exc THEN rest
         ELSE IF last.value # <<>>
         THEN LET r == SummarizeCompanyNews(last.name, last.value,
                                            outs[last.name])
              IN
              [exc |-> r.exc,
               map |-> IF r.exc THEN rest.map
                       ELSE DictSet(rest.map, last.name, r.value),
               calls |-> Append(rest.calls, last.name)]
         ELSE [exc |-> FALSE,
               map |-> DictSet(rest.map, last.name, PyNone),
               calls |-> rest.calls]

---------------------------------------------------------------------------
(* DigestGenerator *)

MaxDigestArticles == 2

\* "=" * 80 and "-" * 80
Rule80 == "================================================================================"
Dash80 == "--------------------------------------------------------------------------------"
\* the bullet character U+2022, written in ASCII
Bullet == "*"

\* sum(1 for articles in news_data.values() if articles)
RECURSIVE CompaniesWithNews(_)
CompaniesWithNews(nd) ==
    IF nd = <<>> THEN 0
    ELSE (IF Head(nd).value # <<>> THEN 1 ELSE 0) + CompaniesWithNews(Tail(nd))

\* sum(len(articles) for articles in news_data.values())
RECURSIVE TotalArticles(_)
TotalArticles(nd) ==
    IF nd = <<>> THEN 0
    ELSE Len(Head(nd).value) + TotalArticles(Tail(nd))

\* [pair for pair in news_data.items() if keep(pair)]
RECURSIVE WithNews(_)
WithNews(nd) ==
    IF nd = <<>> THEN <<>>
    ELSE (IF Head(nd).value # <<>> THEN <<Head(nd)>> ELSE <<>>)
         \o WithNews(Tail(nd))

RECURSIVE WithoutNews(_)
WithoutNews(nd) ==
    IF nd = <<>> THEN <<>>
    ELSE (IF Head(nd).value = <<>> THEN <<Head(nd)>> ELSE <<>>)
         \o WithoutNews(Tail(nd))

RECURSIVE InsertByName(_, _)
InsertByName(sorted, pair) ==
    IF sorted = <<>> THEN <<pair>>
    ELSE IF StrLess(pair.name, Head(sorted).name)
    THEN <<pair>> \o sorted
    ELSE <<Head(sorted)>> \o InsertByName(Tail(sorted), pair)

\* a variant that leaves the dict's order
SortByNameUnsorted(pairs) == pairs

\* list.sort(key=lambda x: x[0])
RECURSIVE SortByName(_)
SortByName(pairs) ==
    IF pairs = <<>> THEN <<>>
    ELSE InsertByName(SortByName(SubSeq(pairs, 1, Len(pairs) - 1)),
                      pairs[Len(pairs)])

\* _generate_summary: lines 90-113
RECURSIVE SummaryBullets(_)
SummaryBullets(nd) ==
    IF nd = <<>> THEN <<>>
    ELSE (IF Head(nd).value # <<>>
          THEN <<"    " \o Bullet \o " " \o Head(nd).name \o " ("
                 \o ToString(Len(Head(nd).value)) \o " articles)">>
          ELSE <<>>)
         \o SummaryBullets(Tail(nd))

GenerateSummary(nd) ==
    <<Dash80, "EXECUTIVE SUMMARY", Dash80, "",
      "  Portfolio Companies: " \o ToString(Len(nd)),
      "  Companies with News: " \o ToString(CompaniesWithNews(nd)),
      "  Total Articles: " \o ToString(TotalArticles(nd)),
      "">>
    \o (IF CompaniesWithNews(nd) > 0
        THEN <<"  Companies in the news this week:">> \o SummaryBullets(nd)
        ELSE <<"  No companies had news this week.">>)

\* the lines of the numbered article list: lines 150-154
RECURSIVE ArticleLines(_, _)
ArticleLines(arts, i) ==
    IF i > Len(arts) THEN <<>>
    ELSE <<"  [" \o ToString(i) \o "] " \o Str(arts[i].title),
           "      " \o Str(arts[i].link),
           "      " \o arts[i].source \o " | " \o arts[i].published,
           "">>
         \o ArticleLines(arts, i + 1)

\* a variant that prints whatever the formatted summary is
FundingLinesAlways(funding_info) ==
    IF funding_info.some
    THEN <<"Funding: " \o FormatFundingSummary(funding_info.info), "">>
    ELSE <<>>

\* the funding lines of a section: lines 131-136.  funding_info is
\* [some, info]: some = FALSE for None
FundingLines(funding_info) ==
    IF funding_info.some
    THEN LET funding_summary == FormatFundingSummary(funding_info.info) IN
         IF funding_summary # NoRecentData
         THEN <<"Funding: " \o funding_summary, "">>
         ELSE <<>>
    ELSE <<>>

\* _format_company_section: lines 123-159
FormatCompanySection(company_name, arts, funding_info, ai_summary) ==
    <<Dash80, Upper(company_name), Dash80, "">>
    \o FundingLines(funding_info)
    \o (IF Truthy(ai_summary)
        THEN <<"SUMMARY:", "", "  " \o ai_summary, "">>
        ELSE <<>>)
    \o (IF arts # <<>>
        THEN <<"LINKS (" \o ToString(Len(arts)) \o " articles):", "">>
             \o ArticleLines(arts, 1)
        ELSE <<"No news this week.", "">>)

\* funding_data.get(company_name) if funding_data else None
FundingOf(fd, company_name) ==
    IF fd.given /\ fd.map # <<>> /\ HasKey(fd.map, company_name)
    THEN [some |-> TRUE, info |-> Get(fd.map, company_name)]
    ELSE [some |-> FALSE, info |-> DefaultFundingInfo(company_name)]

\* ai_summaries.get(company_name) if ai_summaries else None
SummaryOf(ais, company_name) ==
    IF ais.given /\ ais.map # <<>> /\ HasKey(ais.map, company_name)
    THEN Get(ais.map, company_name)
    ELSE PyNone

\* the loop over companies_with_news: lines 59-67
RECURSIVE CompanySections(_, _, _)
CompanySections(pairs, fd, ais) ==
    IF pairs = <<>> THEN <<>>
    ELSE FormatCompanySection(Head(pairs).name, Head(pairs).value,
                              FundingOf(fd, Head(pairs).name),
                              SummaryOf(ais, Head(pairs).name))
         \o <<"">>
         \o CompanySections(Tail(pairs), fd, ais)

\* the loop over companies_without_news: lines 76-77
NoNewsBullets(pairs) ==
    [i \in 1..Len(pairs) |-> "  " \o Bullet \o " " \o pairs[i].name]

\* generate_digest: lines 32-86, as the list of the lines of its text
GenerateDigest(nd, fd, ais, now) ==
    LET companies_with_news == SortByName(WithNews(nd))
        companies_without_news == SortByName(WithoutNews(nd))
    IN
    <<Rule80, "PORTFOLIO WEEKLY DIGEST", "Week of " \o now.long, Rule80, "">>
    \o GenerateSummary(nd) \o <<"">>
    \o <<Rule80, "DETAILED COMPANY REPORTS", Rule80, "">>
    \o CompanySections(companies_with_news, fd, ais)
    \o (IF companies_without_news # <<>>
        THEN <<Dash80, "NO NEWS THIS WEEK", Dash80, "">>
             \o NoNewsBullets(companies_without_news) \o <<"">>
        ELSE <<>>)
    \o <<Rule80, "End of digest - Generated on " \o now.stamp, Rule80>>

\* a variant that counts articles where it should count companies
GenerateSubjectLineByArticles(nd, now) ==
    LET prefix == "Portfolio Digest - Week of " \o now.numeric \o " - " IN
    IF TotalArticles(nd) = 0 THEN prefix \o "Quiet Week"
    ELSE IF TotalArticles(nd) = 1 THEN prefix \o "1 Company Update"
    ELSE prefix \o ToString(CompaniesWithNews(nd)) \o " Companies with News"

\* generate_subject_line: lines 163-173
GenerateSubjectLine(nd, now) ==
    LET companies_with_news == CompaniesWithNews(nd)
        total_articles == TotalArticles(nd)
        prefix == "Portfolio Digest - Week of " \o now.numeric \o " - "
    IN
    IF total_articles = 0 THEN prefix \o "Quiet Week"
    ELSE IF companies_with_news = 1 THEN prefix \o "1 Company Update"
    ELSE prefix \o ToString(companies_with_news) \o " Companies with News"

\* The inputs of the model
DigestNames == {"Acme", "Zeta", "bolt"}

DigestArticles(n) ==
    [i \in 1..n |->
        [title |-> Title(i), link |-> Url(i),
         published |-> IF i = 1 THEN Strftime(Now) ELSE "Unknown date",
         source |-> "Unknown"]]

\* the sequences of distinct names
NameOrders ==
    { o \in UNION { [1..n -> DigestNames] : n \in 0..Cardinality(DigestNames) } :
        \A i, j \in 1..Len(o) : i # j => o[i] # o[j] }

\* the news mappings: any names in any insertion order, each with up to
\* MaxDigestArticles articles
NewsDatas ==
    UNION { { [i \in 1..Len(o) |->
                 [name |-> o[i], value |-> DigestArticles(counts[i])]] :
              counts \in [1..Len(o) -> 0..MaxDigestArticles] } :
            o \in NameOrders }

\* the funding records of a company: the two get_funding_info returns, and
\* one with structured fields
FundingRecord(company_name, kind) ==
    CASE kind = "default" -> DefaultFundingInfo(company_name)
      [] kind = "maybe" ->
           [DefaultFundingInfo(company_name) EXCEPT !.status = StatusMaybe]
      [] OTHER ->
           [DefaultFundingInfo(company_name) EXCEPT
                !.status = "Series B announced",
                !.last_funding_round = "Series B",
                !.total_raised = "$12M"]

\* which kind of record each company has
FundingPatterns ==
    { [Acme |-> "default", Zeta |-> "default", bolt |-> "default"],
      [Acme |-> "maybe", Zeta |-> "structured", bolt |-> "default"],
      [Acme |-> "default", Zeta |-> "maybe", bolt |-> "structured"],
      [Acme |-> "structured", Zeta |-> "default", bolt |-> "maybe"] }

\* the funding mappings for a news mapping: None (--skip-funding), or a
\* record for every company
FundingDatas(nd) ==
    { [given |-> FALSE, map |-> <<>>] }
    \cup { [given |-> TRUE,
            map |-> [i \in 1..Len(nd) |->
                        [name |-> nd[i].name,
                         value |-> FundingRecord(nd[i].name,
                                                 pat[nd[i].name])]]] :
             pat \in FundingPatterns }

Clock ==
    [long |-> "November 02, 2026", numeric |-> "11/02/2026",
     stamp |-> "2026-11-02 08:00:00"]

DigestInit ==
    /\ news_data \in NewsDatas
    /\ funding_data \in FundingDatas(news_data)
    /\ ai_summaries = [given |-> FALSE, map |-> <<>>]
    /\ summarize_calls = <<>>
    /\ digest = <<>>
    /\ subject = ""
    /\ today = Clock
    /\ dg_pc \in {"summarize", "render"}

\* summarize_all_companies(news_data)
SummarizeAll ==
    /\ dg_pc = "summarize"
    /\ \E outs \in [DigestNames -> DigestApiOutcomes] :
           LET r == SummarizeAllCompanies(news_data, outs) IN
           /\ ai_summaries' = [given |-> TRUE, map |-> r.map]
           /\ summarize_calls' = r.calls
           /\ dg_pc' = IF r.exc THEN "raised" ELSE "render"
    /\ UNCHANGED <<news_data, funding_data, digest, subject, today>>
    /\ UNCHANGED <<fetchVars, batchVars, fundVars, summaryVars, mainVars>>

\* generate_digest(news_data, funding_data, ai_summaries)
RenderDigest ==
    /\ dg_pc = "render"
    /\ digest' = GenerateDigest(news_data, funding_data, ai_summaries, today)
    /\ dg_pc' = "subject"
    /\ UNCHANGED <<news_data, funding_data, ai_summaries, summarize_calls,
                   subject, today>>
    /\ UNCHANGED <<fetchVars, batchVars, fundVars, summaryVars, mainVars>>

\* generate_subject_line(news_data)
MakeSubjectLine ==
    /\ dg_pc = "subject"
    /\ subject' = GenerateSubjectLine(news_data, today)
    /\ dg_pc' = "done"
    /\ UNCHANGED <<news_data, funding_data, ai_summaries, summarize_calls,
                   digest, today>>
    /\ UNCHANGED <<fetchVars, batchVars, fundVars, summaryVars, mainVars>>

DigestNext == SummarizeAll \/ RenderDigest \/ MakeSubjectLine

InitDigest ==
    FetchIdle /\ BatchIdle /\ FundIdle /\ SummaryIdle /\ DigestInit
    /\ MainIdle

SpecDigest == InitDigest /\ [][DigestNext]_vars

\* generate_digest has returned
Rendered == dg_pc \in {"subject", "done"}

NewsOf(company_name) == Get(news_data, company_name)

StartsWith(line, prefix) ==
    Len(line) >= Len(prefix) /\ SubSeq(line, 1, Len(prefix)) = prefix

\* the lines of the digest that are a title between two dashed rules
TitleLines ==
    { i \in 2..(Len(digest) - 1) :
        digest[i - 1] = Dash80 /\ digest[i + 1] = Dash80 }

\* where the detailed sections of a company start
SectionStarts(company_name) ==
    LET header == Upper(company_name) IN
    { i \in TitleLines : digest[i] = header }

\* where the no-news list starts
NoNewsStarts == { i \in TitleLines : digest[i] = "NO NEWS THIS WEEK" }

\* the bullets of a company in the no-news list's format
BulletLines(company_name) ==
    LET bullet == "  " \o Bullet \o " " \o company_name IN
    { i \in 1..Len(digest) : digest[i] = bullet }

\* line i is in the body of the section whose title is line h: no rule
\* between them
InSectionBody(h, i) ==
    /\ h + 2 <= i
    /\ \A j \in (h + 2)..i : digest[j] \notin {Dash80, Rule80}

\* the "Funding:" lines of the sections of a company
FundingLinesOf(company_name) ==
    LET starts == SectionStarts(company_name) IN
    { i \in 1..Len(digest) :
        /\ StartsWith(digest[i], "Funding: ")
        /\ \E h \in starts : InSectionBody(h, i) }

HasFundingLine(company_name) == FundingLinesOf(company_name) # {}

\* C3: the subject holds "Quiet Week" when there are no articles at all,
\* "1 Company Update" when exactly one company has articles, and
\* "N Companies with News" when N > 1 companies have articles; it holds
\* exactly one of the three endings.
C3_SubjectLineVariants ==
    dg_pc = "done" =>
        LET n == Cardinality({ i \in 1..Len(news_data) :
                                 news_data[i].value # <<>> })
            quiet == Contains(subject, "Quiet Week")
            single == Contains(subject, "Company Update")
            plural == Contains(subject, "Companies with News")
        IN
        /\ TotalArticles(news_data) = 0 => quiet
        /\ n = 1 => Contains(subject, " 1 Company Update")
        /\ n > 1 => Contains(subject, " " \o ToString(n)
                                          \o " Companies with News")
        /\ Cardinality({ v \in {"quiet", "single", "plural"} :
                           \/ v = "quiet" /\ quiet
                           \/ v = "single" /\ single
                           \/ v = "plural" /\ plural }) = 1

\* each of the three subjects has been produced: this one for two companies
\* with news and one without
C3_Witness ==
    /\ dg_pc = "done"
    /\ Len(news_data) = 3
    /\ CompaniesWithNews(news_data) = 2
    /\ TotalArticles(news_data) = 3
    /\ Contains(subject, "- 2 Companies with News")

\* format_funding_summary of the company's funding record; there is no
\* summary of a record that is not there (format_funding_summary(None) is a
\* TypeError)
FormattedFundingSummary(company_name) ==
    LET f == FundingOf(funding_data, company_name) IN
    IF f.some THEN FormatFundingSummary(f.info) ELSE "<TypeError>"

\* C4, as stated: the section of a company with news has no "Funding:" line
\* if and only if the formatted funding summary of its funding record is
\* "No recent public funding data available".
C4_FundingLineOmittedIffSentinel ==
    Rendered =>
        \A i \in 1..Len(news_data) :
            news_data[i].value # <<>> =>
                (~HasFundingLine(news_data[i].name)
                     <=> FormattedFundingSummary(news_data[i].name)
                             = NoRecentData)

\* C4, amended: the section of a company with news has no "Funding:" line
\* if and only if the company has no funding record or the formatted
\* funding summary of its record is the sentinel; a line that is there
\* shows the formatted summary.
C4_FundingLineOmittedIffNoRecordOrSentinel ==
    Rendered =>
        \A i \in 1..Len(news_data) :
            news_data[i].value # <<>> =>
                LET name == news_data[i].name
                    f == FundingOf(funding_data, name)
                IN
                /\ ~HasFundingLine(name)
                       <=> (~f.some
                            \/ FormatFundingSummary(f.info) = NoRecentData)
                /\ \A k \in FundingLinesOf(name) :
                       digest[k] = "Funding: " \o FormatFundingSummary(f.info)

\* a digest with a section that shows a funding line and a section whose
\* record formats to the sentinel and shows none
C4_Witness ==
    /\ Rendered
    /\ funding_data.given
    /\ \E i, j \in 1..Len(news_data) :
           /\ news_data[i].value # <<>>
           /\ news_data[j].value # <<>>
           /\ HasFundingLine(news_data[i].name)
           /\ ~HasFundingLine(news_data[j].name)
           /\ FormattedFundingSummary(news_data[j].name) = NoRecentData

\* C5: a company with an empty article list is a bullet of the no-news list
\* and has no detailed section; summarize_all_companies does not pass it to
\* summarize_company_news and records None for it.
C5_NoNewsCompaniesNotSummarized ==
    \A i \in 1..Len(news_data) :
        news_data[i].value = <<>> =>
            LET name == news_data[i].name IN
            /\ Rendered =>
                   /\ SectionStarts(name) = {}
                   /\ \E h \in NoNewsStarts :
                          \E b \in BulletLines(name) : b > h
            /\ ai_summaries.given =>
                   /\ \A k \in 1..Len(summarize_calls) :
                          summarize_calls[k] # name
                   /\ Get(ai_summaries.map, name) = PyNone

\* a digest rendered after summarize_all_companies, for a company without
\* news beside one that was summarized
C5_Witness ==
    /\ dg_pc = "done"
    /\ ai_summaries.given
    /\ Len(summarize_calls) >= 1
    /\ \E i \in 1..Len(news_data) :
           /\ news_data[i].value = <<>>
           /\ BulletLines(news_data[i].name) # {}

---------------------------------------------------------------------------
(* EmailSender *)

\* what the SMTP session of one send_digest call can meet: smtplib.SMTP()
\* failing to connect, starttls failing, login raising
\* SMTPAuthenticationError, send_message raising, or none of these
Transports == {"ok", "connect_failed", "tls_failed", "auth_failed",
               "send_failed"}

\* the body of the try of send_digest, lines 59-80
SendDigestBody(transport) ==
    IF transport = "ok" THEN Return(TRUE)
    ELSE [exc |-> TRUE, value |-> FALSE]

\* a variant without the except clauses
SendDigestNoHandler(transport) == SendDigestBody(transport)

\* send_digest: both handlers (SMTPAuthenticationError, Exception) log and
\* return False
SendDigest(transport) == TryExcept(SendDigestBody(transport), FALSE)

\* the subject and the body send_test_email passes to send_digest
TestSubject == "Portfolio Monitor - Test Email"
TestBody ==
    <<"This is a test email from your Portfolio Monitor.", "",
      "If you're receiving this, your email configuration is working correctly!",
      "",
      "You should start receiving weekly portfolio digests on Monday mornings.",
      "", "---", "Portfolio Monitor">>

---------------------------------------------------------------------------
(* main *)

MaxMainCompanies == 2

\* get_env_variable: [exit, value]; exit = TRUE is sys.exit(1)
GetEnvVariableLenient(value, required) == [exit |-> FALSE, value |-> value]

GetEnvVariable(value, required) ==
    [exit |-> required /\ ~Truthy(value), value |-> value]

\* x or y
Or(x, y) == IF Truthy(x) THEN x ELSE y

MainCompanyLists ==
    UNION { [1..n -> CompanyEntries] : n \in 0..MaxMainCompanies }

\* what load_config can find at the path: no file, a file that is not YAML,
\* a YAML document that is not a mapping (an empty file loads as None), a
\* mapping without a 'companies' key, one whose 'companies' is null, and a
\* mapping with a company list
Configs ==
    { [kind |-> k, companies |-> <<>>] :
        k \in {"missing", "malformed", "not_a_mapping", "no_companies_key",
               "null_companies"} }
    \cup { [kind |-> "mapping", companies |-> l] : l \in MainCompanyLists }

Environs ==
    [SMTP_EMAIL : {PyNone, "", "fund@example.com"},
     SMTP_PASSWORD : {PyNone, "app-password"},
     RECIPIENT_EMAIL : {PyNone, "", "partners@example.com"}]

\* the responses the requests of a run can meet
MainNewsResponses ==
    { r \in BatchResponses : r.error = "timeout" \/ r.items # <<>> }
MainFundingResponses ==
    { r \in FundingResponses : r.error = "timeout" \/ r.status_code = 200 }

\* what opening and writing the output file can meet
Disks == {"ok", "os_error"}

MainInit ==
    /\ args \in [test : BOOLEAN, skip_funding : BOOLEAN]
    /\ config \in Configs
    /\ environ \in Environs
    /\ recipient_email = PyNone
    /\ output_file = [written |-> FALSE, content |-> <<>>]
    /\ smtp_log = <<>>
    /\ exit_status = -1
    /\ main_pc = "load_config"

runVars == <<args, config, environ>>

\* sys.exit(status), an uncaught exception (status 1), or the return of
\* main (status 0)
Exit(status) ==
    /\ main_pc' = "exited"
    /\ exit_status' = status

\* config = load_config(args.config); companies = config.get('companies',
\* []): lines 85-86 and 27-40.  FileNotFoundError and YAMLError are
\* sys.exit(1); on a document that is not a mapping config.get raises and
\* nothing catches it.  A null 'companies' and a missing one are both falsy,
\* which is all line 88 looks at: both are the empty list here.
LoadConfig ==
    /\ main_pc = "load_config"
    /\ IF config.kind \in {"missing", "malformed", "not_a_mapping"}
       THEN Exit(1) /\ UNCHANGED companies
       ELSE /\ companies' = config.companies
            /\ main_pc' = "check_companies"
            /\ UNCHANGED exit_status
    /\ UNCHANGED <<news_idx, results, news_requests, batch_pc>>
    /\ UNCHANGED <<runVars, recipient_email, output_file, smtp_log>>
    /\ UNCHANGED <<fetchVars, fundVars, summaryVars, digestVars>>

\* if not companies: sys.exit(1), lines 88-92
CheckCompanies ==
    /\ main_pc = "check_companies"
    /\ IF companies = <<>>
       THEN Exit(1)
       ELSE main_pc' = "environment" /\ UNCHANGED exit_status
    /\ UNCHANGED <<runVars, recipient_email, output_file, smtp_log>>
    /\ UNCHANGED <<fetchVars, batchVars, fundVars, summaryVars, digestVars>>

\* lines 95-100: the two required variables, then the recipient
GetEmailConfiguration ==
    /\ main_pc = "environment"
    /\ LET smtp_email == GetEnvVariable(environ.SMTP_EMAIL, TRUE)
           smtp_password == GetEnvVariable(environ.SMTP_PASSWORD, TRUE)
           recipient == GetEnvVariable(environ.RECIPIENT_EMAIL, FALSE)
       IN
       IF smtp_email.exit \/ smtp_password.exit \/ recipient.exit
       THEN Exit(1) /\ UNCHANGED recipient_email
       ELSE /\ recipient_email' = Or(recipient.value, smtp_email.value)
            /\ main_pc' = "mode"
            /\ UNCHANGED exit_status
    /\ UNCHANGED <<runVars, output_file, smtp_log>>
    /\ UNCHANGED <<fetchVars, batchVars, fundVars, summaryVars, digestVars>>

\* one call of send_digest and what main does with its result: lines
\* 105-112 and 149-163
SendAndExit(subj, body) ==
    \E transport \in Transports :
        LET success == SendDigest(transport) IN
        /\ smtp_log' = Append(smtp_log,
                              [recipient |-> recipient_email,
                               subject |-> subj, body |-> body,
                               transport |-> transport,
                               raised |-> success.exc,
                               result |-> success.value])
        /\ IF success.exc THEN Exit(1)
           ELSE IF success.value THEN Exit(0)
           ELSE Exit(1)

\* test mode, lines 103-112: send_test_email and exit
TestMode ==
    /\ main_pc = "mode"
    /\ args.test
    /\ SendAndExit(TestSubject, TestBody)
    /\ UNCHANGED <<runVars, recipient_email, output_file>>
    /\ UNCHANGED <<fetchVars, batchVars, fundVars, summaryVars, digestVars>>

\* news_fetcher.fetch_all_companies_news(companies) is called: lines 118-119
StartFetchNews ==
    /\ main_pc = "mode"
    /\ ~args.test
    /\ main_pc' = "news"
    /\ batch_pc' = "loop"
    /\ news_idx' = 0
    /\ results' = <<>>
    /\ news_requests' = <<>>
    /\ UNCHANGED companies
    /\ UNCHANGED <<runVars, recipient_email, output_file, smtp_log,
                   exit_status>>
    /\ UNCHANGED <<fetchVars, fundVars, summaryVars, digestVars>>

MainFetchNextCompany ==
    /\ main_pc = "news"
    /\ FetchNextCompanyFrom(MainNewsResponses)

\* news_data = (the returned mapping), then, without --skip-funding,
\* funding_tracker.get_all_funding_info(companies) is called: lines 119-126
StartFunding ==
    /\ main_pc = "news"
    /\ batch_pc = "returned"
    /\ ~args.skip_funding
    /\ news_data' = results
    /\ main_pc' = "funding"
    /\ fund_pc' = "loop"
    /\ fund_idx' = 0
    /\ fund_results' = <<>>
    /\ fund_requests' = <<>>
    /\ UNCHANGED <<funding_data, ai_summaries, summarize_calls, digest,
                   subject, today, dg_pc>>
    /\ UNCHANGED <<runVars, recipient_email, output_file, smtp_log,
                   exit_status>>
    /\ UNCHANGED <<fetchVars, batchVars, summaryVars>>

\* with --skip-funding funding_data stays None: lines 122-128
SkipFunding ==
    /\ main_pc = "news"
    /\ batch_pc = "returned"
    /\ args.skip_funding
    /\ news_data' = results
    /\ funding_data' = [given |-> FALSE, map |-> <<>>]
    /\ main_pc' = "generate"
    /\ UNCHANGED <<ai_summaries, summarize_calls, digest, subject, today,
                   dg_pc>>
    /\ UNCHANGED <<runVars, recipient_email, output_file, smtp_log,
                   exit_status>>
    /\ UNCHANGED <<fetchVars, batchVars, fundVars, summaryVars>>

MainGetNextFundingInfo ==
    /\ main_pc = "funding"
    /\ GetNextFundingInfoFrom(MainFundingResponses)

\* funding_data = (the returned mapping): line 126
FundingFetched ==
    /\ main_pc = "funding"
    /\ fund_pc = "returned"
    /\ funding_data' = [given |-> TRUE, map |-> fund_results]
    /\ main_pc' = "generate"
    /\ UNCHANGED <<news_data, ai_summaries, summarize_calls, digest, subject,
                   today, dg_pc>>
    /\ UNCHANGED <<runVars, recipient_email, output_file, smtp_log,
                   exit_status>>
    /\ UNCHANGED <<fetchVars, batchVars, fundVars, summaryVars>>

\* digest_body = generate_digest(news_data, funding_data); subject =
\* generate_subject_line(news_data): lines 130-134 (no ai_summaries)
MainGenerateDigest ==
    /\ main_pc = "generate"
    /\ today' = Clock
    /\ digest' = GenerateDigest(news_data, funding_data, ai_summaries, Clock)
    /\ subject' = GenerateSubjectLine(news_data, Clock)
    /\ main_pc' = "save"
    /\ UNCHANGED <<news_data, funding_data, ai_summaries, summarize_calls,
                   dg_pc>>
    /\ UNCHANGED <<runVars, recipient_email, output_file, smtp_log,
                   exit_status>>
    /\ UNCHANGED <<fetchVars, batchVars, fundVars, summaryVars>>

\* a variant that goes on to the email without writing the file
MainSaveDigestSkipped ==
    /\ main_pc = "save"
    /\ main_pc' = "send"
    /\ UNCHANGED <<runVars, recipient_email, output_file, smtp_log,
                   exit_status>>
    /\ UNCHANGED <<fetchVars, batchVars, fundVars, summaryVars, digestVars>>

\* lines 136-145: mkdir, open and write; an OSError there is not caught
MainSaveDigest ==
    /\ main_pc = "save"
    /\ \E disk \in Disks :
         IF disk = "ok"
         THEN /\ output_file' = [written |-> TRUE, content |-> digest]
              /\ main_pc' = "send"
              /\ UNCHANGED exit_status
         ELSE Exit(1) /\ UNCHANGED output_file
    /\ UNCHANGED <<runVars, recipient_email, smtp_log>>
    /\ UNCHANGED <<fetchVars, batchVars, fundVars, summaryVars, digestVars>>

\* lines 147-163: send_digest(recipient_email, subject, digest_body)
MainSendDigest ==
    /\ main_pc = "send"
    /\ SendAndExit(subject, digest)
    /\ UNCHANGED <<runVars, recipient_email, output_file>>
    /\ UNCHANGED <<fetchVars, batchVars, fundVars, summaryVars, digestVars>>

MainNext ==
    \/ LoadConfig \/ CheckCompanies \/ GetEmailConfiguration
    \/ TestMode
    \/ StartFetchNews \/ MainFetchNextCompany \/ SkipUnnamedCompany
    \/ ReturnResults
    \/ StartFunding \/ SkipFunding
    \/ MainGetNextFundingInfo \/ SkipUnnamedFunding \/ ReturnFunding
    \/ FundingFetched
    \/ MainGenerateDigest \/ MainSaveDigest \/ MainSendDigest

InitMain ==
    FetchIdle /\ BatchIdle /\ FundIdle /\ SummaryIdle /\ DigestIdle
    /\ MainInit

SpecMain == InitMain /\ [][MainNext]_vars

Exited == main_pc = "exited"

\* C11: whatever the SMTP session meets, send_digest does not raise and
\* returns True exactly when nothing failed; in test mode and in digest mode
\* alike the process has then exited, with status 0 after True and with
\* status 1 after False.
C11_SendFailureReturnsFalseExitsNonzero ==
    \A k \in 1..Len(smtp_log) :
        LET call == smtp_log[k] IN
        /\ ~call.raised
        /\ call.result = (call.transport = "ok")
        /\ Exited
        /\ exit_status = (IF call.result THEN 0 ELSE 1)

\* a digest run whose login is refused
C11_Witness ==
    /\ Exited
    /\ ~args.test
    /\ Len(smtp_log) = 1
    /\ smtp_log[1].transport = "auth_failed"
    /\ smtp_log[1].result = FALSE
    /\ exit_status = 1

\* C12: in digest mode, from the moment the run is at the email step the
\* output file is written and holds the whole digest body, and it still
\* does after the send, successful or not; the body of every send_digest
\* call is the file's content.
C12_FileWrittenBeforeSend ==
    (~args.test /\ (main_pc = "send" \/ smtp_log # <<>>)) =>
        /\ output_file.written
        /\ output_file.content = digest
        /\ Len(digest) > 0
        /\ \A k \in 1..Len(smtp_log) :
               smtp_log[k].body = output_file.content

\* a digest run with news whose send fails after the file was written
C12_Witness ==
    /\ Exited
    /\ ~args.test
    /\ Len(smtp_log) = 1
    /\ smtp_log[1].transport = "send_failed"
    /\ output_file.written
    /\ CompaniesWithNews(news_data) > 0
    /\ smtp_log[1].body = output_file.content

\* the startup errors the run cannot get past
StartupFatal ==
    \/ config.kind \in {"missing", "malformed", "not_a_mapping"}
    \/ config.companies = <<>>
    \/ ~Truthy(environ.SMTP_EMAIL)
    \/ ~Truthy(environ.SMTP_PASSWORD)

\* a news request, a funding request, a write of the digest file or a send
Outbound ==
    \/ news_requests # <<>>
    \/ fund_requests # <<>>
    \/ output_file.written
    \/ smtp_log # <<>>

InStartup == main_pc \in {"load_config", "check_companies", "environment"}

\* C13: with a missing or malformed config file, an empty company list or
\* an unset SMTP_EMAIL or SMTP_PASSWORD the run never leaves startup except
\* by exiting with status 1, and makes no news request, funding request,
\* file write or send; with none of these the run gets past startup whether
\* or not RECIPIENT_EMAIL is set, and the recipient is RECIPIENT_EMAIL when
\* set and the sender address otherwise.
C13_StartupErrorsExitBeforeOutbound ==
    /\ StartupFatal =>
           /\ InStartup \/ Exited
           /\ Exited => exit_status = 1
           /\ ~Outbound
    /\ (~StartupFatal /\ ~InStartup) =>
           /\ recipient_email =
                  (IF Truthy(environ.RECIPIENT_EMAIL)
                   THEN environ.RECIPIENT_EMAIL ELSE environ.SMTP_EMAIL)
           /\ Exited => (batch_pc = "returned" \/ smtp_log # <<>>)
           /\ \A k \in 1..Len(smtp_log) :
                  smtp_log[k].recipient = recipient_email

\* a run with a company list and a sender address but no SMTP_PASSWORD
C13_Witness ==
    /\ Exited
    /\ exit_status = 1
    /\ config.kind = "mapping"
    /\ companies # <<>>
    /\ Truthy(environ.SMTP_EMAIL)
    /\ ~Truthy(environ.SMTP_PASSWORD)
    /\ ~Outbound

\* the search queries / the display names of a list of entries
RECURSIVE Queries(_)
Queries(entries) ==
    IF entries = <<>> THEN <<>>
    ELSE <<SearchQuery(Head(entries))>> \o Queries(Tail(entries))

RECURSIVE Names(_)
Names(entries) ==
    IF entries = <<>> THEN <<>>
    ELSE <<DisplayName(Head(entries))>> \o Names(Tail(entries))

RequestedQueries(log) == [j \in 1..Len(log) |-> log[j].query]

LastFor(log, j) ==
    \A k \in (j + 1)..Len(log) : log[k].display # log[j].display

\* C14: the news requests made so far are one per named entry the news
\* loop has passed, in list order, and so are the funding requests; there
\* is at most one send_digest call; a failed news request leaves the empty
\* list and a failed funding request the default record under the
\* company's name (unless a later entry of the same name replaced it), a
\* failed send ends the process with status 1, and nothing happens after
\* the process has exited.
C14_NoRetries ==
    /\ [](/\ RequestedQueries(news_requests)
                 = Queries(NamedEntries(companies, news_idx))
          /\ RequestedQueries(fund_requests)
                 = Names(NamedEntries(companies, fund_idx))
          /\ Len(news_requests) <= Len(companies)
          /\ Len(fund_requests) <= Len(companies)
          /\ Len(smtp_log) <= 1
          /\ \A j \in 1..Len(news_requests) :
                 (news_requests[j].response.error # "none"
                  /\ LastFor(news_requests, j))
                     => Get(results, news_requests[j].display) = <<>>
          /\ \A j \in 1..Len(fund_requests) :
                 (fund_requests[j].response.error # "none"
                  /\ LastFor(fund_requests, j))
                     => Get(fund_results, fund_requests[j].display)
                            = DefaultFundingInfo(fund_requests[j].display)
          /\ \A k \in 1..Len(smtp_log) :
                 smtp_log[k].transport # "ok"
                     => (Exited /\ exit_status = 1))
    /\ [][~Exited]_vars

\* a run over two named entries in which a news request, a funding request
\* and the send all failed
C14_Witness ==
    /\ Exited
    /\ Len(news_requests) = 2
    /\ Len(fund_requests) = 2
    /\ news_requests[1].response.error # "none"
    /\ fund_requests[2].response.error # "none"
    /\ Len(smtp_log) = 1
    /\ smtp_log[1].transport = "connect_failed"

\* the non-empty display names among the first n entries
NamesThrough(n) ==
    { DisplayName(companies[i]) : i \in 1..n } \ {""}

\* C16: the keys of the news mapping are the distinct non-empty display
\* names of the entries the news loop has passed, and likewise for the
\* funding mapping, so that the two returned mappings have the same key set;
\* the news request of an entry is made with its search override and the
\* funding request with its display name.
C16_SameKeysByDisplayName ==
    /\ Keys(results) = NamesThrough(news_idx)
    /\ Keys(fund_results) = NamesThrough(fund_idx)
    /\ (batch_pc = "returned" /\ fund_pc = "returned") =>
           /\ Keys(results) = Keys(fund_results)
           /\ Keys(results) = NamesThrough(Len(companies))
    /\ \A j \in 1..Len(news_requests) :
           news_requests[j].query
               = SearchQuery(NamedEntries(companies, news_idx)[j])
    /\ \A j \in 1..Len(fund_requests) :
           fund_requests[j].query
               = DisplayName(NamedEntries(companies, fund_idx)[j])

\* both mappings returned for a list that names one company twice, with a
\* search override
C16_Witness ==
    /\ batch_pc = "returned"
    /\ fund_pc = "returned"
    /\ Len(companies) = 2
    /\ companies[1].is_dict
    /\ SearchQuery(companies[1]) # DisplayName(companies[1])
    /\ DisplayName(companies[2]) = DisplayName(companies[1])
    /\ Keys(results) = {DisplayName(companies[1])}
    /\ Len(fund_requests) = 2

=============================================================================
